---- MODULE Spec2Model ----
(***************************************************************************)
(* qbraid-chat: the webview message handler (src/webview/messageHandler.ts)*)
(* with the transport functions (src/api/qbraidApi.ts) and the secret      *)
(* store (src/utils/secretManager.ts) it calls, and the chat panel of      *)
(* src/extension.ts that delivers the messages.                            *)
(*                                                                         *)
(* A run is one invocation of handleWebviewMessage.  Its locals are the    *)
(* fields of run[r]; every action is the code executed between two awaits. *)
(***************************************************************************)
EXTENDS Integers, Sequences, FiniteSets, TLC

VARIABLES run, store, cleared, panel, panels, created, revealed, dom, inbox, fmt

\* the chat panel: the module variable panel, the panels that exist, the
\* number of panels created so far, whether reveal() was called on the panel;
\* the document of its webview and the messages posted to it and not yet
\* handled by its listener
view == <<panel, panels, created, revealed, dom, inbox>>

\* cleared: clearApiKey has deleted the key and none was stored since
vars == <<run, store, cleared, panel, panels, created, revealed, dom, inbox, fmt>>

\* ------------------------------------------------------------------ bounds
MaxRuns == 2
MaxReplyLen == 5
MaxPanels == 2
MaxShown == 2
MaxDepth == 2
MaxStrLen == 1

Runs == 1..MaxRuns
\* the runs handled one at a time in Spec and SpecExtract
SoloRuns == {1}

\* ------------------------------------------------------------ JSON values
NoKey == "nokey"
\* let panel: vscode.WebviewPanel | undefined
NoPanel == 0
Keys == {"k1", "k2"}

PlanFields == {"action", "qbraidDeviceId", "shots", "bitcode", "openQasm",
               "jobId", "filters", "prompt", "model", "stream"}

\* A JSON value: its type, the keys an object has, and the values of the keys.
EmptyObject ==
    [type |-> "object", has |-> {}, action |-> "", qbraidDeviceId |-> "",
     shots |-> 0, bitcode |-> "", openQasm |-> "", jobId |-> "",
     filters |-> {}, prompt |-> "", model |-> "", stream |-> FALSE]

Scalar(t) == [EmptyObject EXCEPT !.type = t]

WithAction(a) == [EmptyObject EXCEPT !.has = {"action"}, !.action = a]

\* let plan: any = { action: "none" }
NonePlan == WithAction("none")

CreateJobDocs ==
    { d \in { [WithAction("createJob") EXCEPT
                  !.has = {"action"} \cup h,
                  !.qbraidDeviceId = IF "qbraidDeviceId" \in h THEN "dev1" ELSE "",
                  !.shots = s,
                  !.bitcode = IF "bitcode" \in h THEN "bc" ELSE "",
                  !.openQasm = IF "openQasm" \in h THEN "qasm" ELSE ""] :
                h \in SUBSET {"qbraidDeviceId", "shots", "bitcode", "openQasm"},
                s \in {-1, 0, 1} } :
        "shots" \in d.has \/ d.shots = 0 }

JobIdDocs ==
    { WithAction(a) : a \in {"cancelJob", "deleteJob"} } \cup
    { [WithAction(a) EXCEPT !.has = {"action", "jobId"}, !.jobId = j] :
        a \in {"cancelJob", "deleteJob"}, j \in {"abc123", "j2"} }

\* plan.filters is a JSON object: the set of its <<key, value>> entries
DeviceDocs ==
    { WithAction("getDevices") } \cup
    { [WithAction("getDevices") EXCEPT !.has = {"action", "filters"}, !.filters = f] :
        f \in { {}, {<<"provider", "AWS">>},
                {<<"provider", "AWS">>, <<"bogus", "x">>},
                {<<"bogus", "x">>},
                {<<"status", "ONLINE">>, <<"isAvailable", "true">>, <<"limit", "5">>} } }

ChatDocs ==
    { [WithAction("sendChat") EXCEPT
          !.has = {"action"} \cup h,
          !.prompt = IF "prompt" \in h THEN "hello" ELSE "",
          !.model = IF "model" \in h THEN "gpt-4o" ELSE "",
          !.stream = ("stream" \in h)] :
        h \in SUBSET {"prompt", "model", "stream"} }

OtherDocs ==
    { WithAction(a) : a \in {"listJobs", "getModels", "none", "explain"} } \cup
    { EmptyObject } \cup
    { Scalar(t) : t \in {"null", "number", "string", "array"} }

\* every JSON document the planning model may put in a block
Docs == CreateJobDocs \cup JobIdDocs \cup DeviceDocs \cup ChatDocs \cup OtherDocs

\* the document used where the text around the block is varied
ExtractDocs == { [WithAction("cancelJob") EXCEPT !.has = {"action", "jobId"},
                                                 !.jobId = "abc123"] }

\* ------------------------------------------------------------ reply texts
\* A reply is a sequence of pieces: plain text, whitespace, the opening fence
\* ```json, a bare fence ```, or the text of a JSON document.
Tok(k) == [k |-> k, d |-> EmptyObject]
JsonTok(d) == [k |-> "json", d |-> d]

Pieces(docs) == { Tok(k) : k \in {"text", "ws", "open", "close"} } \cup
                { JsonTok(d) : d \in docs }

SeqsUpTo(S, n) == UNION { [1..m -> S] : m \in 0..n }

\* replies with any text around the blocks, one document
ExtractReplies == SeqsUpTo(Pieces(ExtractDocs), MaxReplyLen)

\* replies of the form the system prompt asks for, every document; and the
\* three malformed shapes
MainReplies ==
    { <<Tok("open"), Tok("ws"), JsonTok(d), Tok("ws"), Tok("close")>> : d \in Docs } \cup
    { <<Tok("text")>>, <<Tok("open"), Tok("text"), Tok("close")>>,
      <<Tok("open"), JsonTok(WithAction("listJobs"))>> }

\* ------------------------------------------------------- plan extraction
RECURSIVE ScanFor(_, _, _)
\* index of the first piece at or after i whose kind is in kinds, 0 if none
ScanFor(reply, i, kinds) ==
    IF i > Len(reply) THEN 0
    ELSE IF reply[i].k \in kinds THEN i
    ELSE ScanFor(reply, i + 1, kinds)

NoMatch == [found |-> FALSE, text |-> <<>>]

\* a bare fence ends the lazy group, and so do the backticks of another ```json
Fences == {"open", "close"}

RECURSIVE ScanBack(_, _, _)
\* index of the last piece at or before i whose kind is in kinds, 0 if none
ScanBack(reply, i, kinds) ==
    IF i < 1 THEN 0
    ELSE IF reply[i].k \in kinds THEN i
    ELSE ScanBack(reply, i - 1, kinds)

\* the capture group /```json([\s\S]*)```/ would give: up to the last fence
PlanMatchGreedy(reply) ==
    LET o == ScanFor(reply, 1, {"open"}) IN
    IF o = 0 THEN NoMatch
    ELSE LET c == ScanBack(reply, Len(reply), Fences) IN
         IF c <= o THEN NoMatch
         ELSE [found |-> TRUE, text |-> SubSeq(reply, o + 1, c - 1)]

\* llmPlanReply.match(/```json([\s\S]*?)```/): the capture group of the
\* leftmost match, the shortest one from there
PlanMatch(reply) ==
    LET o == ScanFor(reply, 1, {"open"}) IN
    IF o = 0 THEN NoMatch
    ELSE LET c == ScanFor(reply, o + 1, Fences) IN
         IF c = 0 THEN NoMatch
         ELSE [found |-> TRUE, text |-> SubSeq(reply, o + 1, c - 1)]

RECURSIVE TrimLeft(_)
TrimLeft(text) ==
    IF text # <<>> /\ Head(text).k = "ws" THEN TrimLeft(Tail(text)) ELSE text

RECURSIVE TrimRight(_)
TrimRight(text) ==
    IF text # <<>> /\ text[Len(text)].k = "ws"
    THEN TrimRight(SubSeq(text, 1, Len(text) - 1)) ELSE text

\* planMatch[1].trim()
Trim(text) == TrimRight(TrimLeft(text))

\* JSON.parse(planText): throws unless the text is one JSON document
JsonParse(text) ==
    IF Len(text) = 1 /\ text[1].k = "json"
    THEN [ok |-> TRUE, value |-> text[1].d]
    ELSE [ok |-> FALSE, value |-> EmptyObject]

ExtractPlanKeepLast(reply) ==
    LET m == PlanMatch(reply) IN
    IF m.found THEN JsonParse(Trim(m.text)).value ELSE NonePlan

\* the plan handleSendMessage reads out of the planning reply
ExtractPlan(reply) ==
    LET m == PlanMatch(reply) IN
    IF m.found
    THEN LET p == JsonParse(Trim(m.text)) IN
         IF p.ok THEN p.value ELSE NonePlan
    ELSE NonePlan

\* ------------------------------------------------------------ run locals
NoErr == [marker |-> FALSE, step |-> "none", why |-> "none"]
Null == [kind |-> "null", desc |-> ""]
ErrObj(d) == [kind |-> "error", desc |-> d]
Payload(k) == [kind |-> k, desc |-> ""]
NoCall == [fn |-> "none", key |-> NoKey, jobId |-> "", prompt |-> "", model |-> "",
           stream |-> FALSE, filters |-> {}]

\* the locals of a handler invocation, and what it has done so far; body is
\* the value the last successful transport call returned, sent the models
\* property of the models message posted, reads the number of times the
\* stored key was read, keysUsed the api-key values its fetches carried,
\* panelId the panel the handler was called with; out is every message the
\* handler has passed to panel.webview.postMessage
IdleRun ==
    [pc |-> "idle", kind |-> "none", apiKey |-> NoKey, reply |-> <<>>,
     plan |-> NonePlan, rawApiResponse |-> Null, actionDesc |-> "",
     planned |-> FALSE, strategy |-> "none", err |-> NoErr, refresh |-> "none",
     newApiKey |-> NoKey, retryErr |-> NoErr, call |-> NoCall,
     body |-> Null, sent |-> Null,
     out |-> <<>>, llmCalls |-> 0, execInvoked |-> 0, execCalls |-> 0,
     prompts |-> 0, retries |-> 0, reads |-> 0, keysUsed |-> {},
     panelId |-> NoPanel]

\* ------------------------------------------------------------- transport
\* what the service answers to one fetch: 2xx with a body of the expected
\* shape, 401, another non-success status, another non-success status whose
\* body text contains the words "Invalid API key", 2xx with a malformed body
Responses == {"ok", "401", "fail", "failMarker", "badBody"}

\* the functions that put the response body into the message they throw
EmbedsBody == {"callLLM", "createQuantumJob", "listAllJobs", "cancelQuantumJob",
               "deleteQuantumJob", "getQuantumDevices", "sendChat"}

\* error.message.includes("Invalid API key") for the Error fn throws on resp
Marked(fn, resp) ==
    \/ resp = "401"
    \/ resp = "failMarker" /\ fn \in EmbedsBody

ErrOf(fn, resp, step) == [marker |-> Marked(fn, resp), step |-> step, why |-> resp]

\* thrown before any fetch
LocalErr(step, why) == [marker |-> FALSE, step |-> step, why |-> why]

\* cancelQuantumJob returning the job record next to the message
PayloadsOfCancelWithJob(fn) ==
    CASE fn = "createQuantumJob" -> {Payload("job")}
      [] fn = "listAllJobs" -> {Payload("jobs"), Payload("noJobs")}
      [] fn = "cancelQuantumJob" -> {Payload("message+job")}
      [] fn = "deleteQuantumJob" -> {Payload("message+job")}
      [] fn = "getQuantumDevices" -> {Payload("devices")}
      [] fn = "sendChat" -> {Payload("text"), Payload("emptyText")}
      [] fn = "fetchModels" -> {Payload("models")}
      [] OTHER -> {}

\* the value each transport function returns on a well-formed 2xx response
PayloadsOf(fn) ==
    CASE fn = "createQuantumJob" -> {Payload("job")}
      [] fn = "listAllJobs" -> {Payload("jobs"), Payload("noJobs")}
      [] fn = "cancelQuantumJob" -> {Payload("message")}
      [] fn = "deleteQuantumJob" -> {Payload("message+job")}
      [] fn = "getQuantumDevices" -> {Payload("devices")}
      [] fn = "sendChat" -> {Payload("text"), Payload("emptyText")}
      [] fn = "fetchModels" -> {Payload("models")}
      [] OTHER -> {}

\* !rawApiResponse
Falsy(raw) == raw.kind \in {"null", "emptyText"}

\* ------------------------------------------------------------- dispatch
Supported == {"createJob", "listJobs", "cancelJob", "deleteJob", "getDevices",
              "sendChat", "getModels"}

\* plan.action as the switch reads it (undefined when there is no such key)
ActionOf(plan) ==
    IF plan.type = "object" /\ "action" \in plan.has THEN plan.action ELSE "undefined"

\* JavaScript truthiness of plan[f]
Truthy(plan, f) ==
    /\ plan.type = "object"
    /\ f \in plan.has
    /\ CASE f = "shots" -> plan.shots # 0
         [] f = "stream" -> plan.stream
         [] f = "filters" -> TRUE
         [] OTHER -> plan[f] # ""

\* the guards without the job id checks of cancelJob and deleteJob
HandlerRejectsNoJobId(plan) ==
    CASE ActionOf(plan) = "createJob" ->
            \/ ~Truthy(plan, "qbraidDeviceId")
            \/ ~Truthy(plan, "shots")
            \/ (~Truthy(plan, "bitcode") /\ ~Truthy(plan, "openQasm"))
      [] ActionOf(plan) = "sendChat" -> ~Truthy(plan, "prompt")
      [] OTHER -> FALSE

\* the guards of the switch cases that break before calling the executor
HandlerRejects(plan) ==
    CASE ActionOf(plan) = "createJob" ->
            \/ ~Truthy(plan, "qbraidDeviceId")
            \/ ~Truthy(plan, "shots")
            \/ (~Truthy(plan, "bitcode") /\ ~Truthy(plan, "openQasm"))
      [] ActionOf(plan) \in {"cancelJob", "deleteJob"} -> ~Truthy(plan, "jobId")
      [] ActionOf(plan) = "sendChat" -> ~Truthy(plan, "prompt")
      [] OTHER -> FALSE

InvalidDesc(a) ==
    CASE a = "createJob" -> "Invalid createJob request: missing deviceId, shots, or code."
      [] a = "cancelJob" -> "Invalid cancelJob request: missing jobId."
      [] a = "deleteJob" -> "Invalid deleteJob request: missing jobId."
      [] a = "sendChat" -> "Invalid sendChat request: missing prompt."

ExecutorOf(a) ==
    CASE a = "createJob" -> "createQuantumJob"
      [] a = "listJobs" -> "listAllJobs"
      [] a = "cancelJob" -> "cancelQuantumJob"
      [] a = "deleteJob" -> "deleteQuantumJob"
      [] a = "getDevices" -> "getQuantumDevices"
      [] a = "sendChat" -> "sendChat"
      [] a = "getModels" -> "fetchModels"

\* createQuantumJob throws before its fetch
CreateJobThrows(plan) ==
    \/ (~Truthy(plan, "bitcode") /\ ~Truthy(plan, "openQasm"))
    \/ (Truthy(plan, "bitcode") /\ Truthy(plan, "openQasm"))

AllowedFilters == {"provider", "type", "status", "isAvailable"}

\* every entry of filters appended to the URL
QueryOfUnfiltered(filters) == filters

\* the search parameters getQuantumDevices appends to the devices URL
QueryOf(filters) == { e \in filters : e[1] \in AllowedFilters }

\* plan.model and plan.stream handed over as they are
CallOfNoDefaults(key, plan) ==
    [fn |-> ExecutorOf(ActionOf(plan)), key |-> key,
     jobId |-> IF ActionOf(plan) \in {"cancelJob", "deleteJob"} THEN plan.jobId ELSE "",
     prompt |-> IF ActionOf(plan) = "sendChat" THEN plan.prompt ELSE "",
     model |-> IF ActionOf(plan) = "sendChat" THEN plan.model ELSE "",
     stream |-> ActionOf(plan) = "sendChat" /\ plan.stream,
     filters |-> IF ActionOf(plan) = "getDevices" /\ Truthy(plan, "filters")
                 THEN QueryOf(plan.filters) ELSE {}]

\* the arguments the executor is called with
CallOf(key, plan) ==
    [fn |-> ExecutorOf(ActionOf(plan)), key |-> key,
     jobId |-> IF ActionOf(plan) \in {"cancelJob", "deleteJob"} THEN plan.jobId ELSE "",
     prompt |-> IF ActionOf(plan) = "sendChat" THEN plan.prompt ELSE "",
     model |-> IF ActionOf(plan) = "sendChat"
               THEN (IF Truthy(plan, "model") THEN plan.model ELSE "gpt-4o-mini")
               ELSE "",
     stream |-> ActionOf(plan) = "sendChat" /\ Truthy(plan, "stream"),
     filters |-> IF ActionOf(plan) = "getDevices" /\ Truthy(plan, "filters")
                 THEN QueryOf(plan.filters) ELSE {}]

\* ---------------------------------------------------- handleSendMessage
Post(s, msgs) == [s EXCEPT !.out = @ \o msgs]

\* the catch block of handleSendMessage, up to its first await
CatchSend(s, e) ==
    IF e.marker
    THEN [s EXCEPT !.err = e, !.pc = "prompt", !.prompts = @ + 1]
    ELSE [Post(s, <<"clearError", "error">>) EXCEPT !.err = e, !.pc = "done"]

StrategyOf(plan) ==
    CASE ActionOf(plan) = "sendChat" -> "chat"
      [] ActionOf(plan) = "getModels" -> "models"
      [] OTHER -> "generic"

\* the fallback written without its "&& actionDesc"
FormatAndAskWrapFalsy(s) ==
    LET raw == IF Falsy(s.rawApiResponse)
               THEN ErrObj(s.actionDesc) ELSE s.rawApiResponse
        t == [s EXCEPT !.rawApiResponse = raw, !.strategy = StrategyOf(s.plan)]
    IN  IF t.strategy = "models" /\ raw.kind # "models"
        THEN CatchSend(t, LocalErr("format", "TypeError"))
        ELSE [t EXCEPT !.pc = "finalCall", !.llmCalls = @ + 1,
                       !.keysUsed = @ \cup {t.apiKey}]

\* the final callLLM made with the key the store holds at that time
FormatAndAskStoredKey(s) ==
    LET raw == IF Falsy(s.rawApiResponse) /\ s.actionDesc # ""
               THEN ErrObj(s.actionDesc) ELSE s.rawApiResponse
        t == [s EXCEPT !.rawApiResponse = raw, !.strategy = StrategyOf(s.plan)]
    IN  IF t.strategy = "models" /\ raw.kind # "models"
        THEN CatchSend(t, LocalErr("format", "TypeError"))
        ELSE [t EXCEPT !.pc = "finalCall", !.llmCalls = @ + 1,
                       !.keysUsed = @ \cup {store}]

\* from the end of the switch to the fetch of the final callLLM
FormatAndAsk(s) ==
    LET raw == IF Falsy(s.rawApiResponse) /\ s.actionDesc # ""
               THEN ErrObj(s.actionDesc) ELSE s.rawApiResponse
        t == [s EXCEPT !.rawApiResponse = raw, !.strategy = StrategyOf(s.plan)]
    IN  IF t.strategy = "models" /\ raw.kind # "models"
        THEN CatchSend(t, LocalErr("format", "TypeError"))
        ELSE [t EXCEPT !.pc = "finalCall", !.llmCalls = @ + 1,
                       !.keysUsed = @ \cup {t.apiKey}]

\* the list of jobs another request has fetched, kept and served again
DispatchCached(s) ==
    IF s.plan.type = "null"
    THEN CatchSend(s, LocalErr("dispatch", "TypeError"))
    ELSE IF ActionOf(s.plan) \notin Supported
    THEN FormatAndAsk(s)
    ELSE IF HandlerRejects(s.plan)
    THEN FormatAndAsk([s EXCEPT !.actionDesc = InvalidDesc(ActionOf(s.plan))])
    ELSE LET t == [s EXCEPT !.execInvoked = @ + 1, !.call = CallOf(s.apiKey, s.plan)]
             kept == { run[q].body : q \in Runs } \cap PayloadsOf("listAllJobs")
         IN  IF ActionOf(s.plan) = "createJob" /\ CreateJobThrows(s.plan)
             THEN CatchSend(t, LocalErr("dispatch", "precondition"))
             ELSE IF ActionOf(s.plan) = "listJobs" /\ kept # {}
             THEN FormatAndAsk([t EXCEPT !.rawApiResponse = CHOOSE b \in kept : TRUE,
                                         !.actionDesc = "listJobs"])
             ELSE [t EXCEPT !.pc = "execCall", !.execCalls = @ + 1,
                            !.keysUsed = @ \cup {t.call.key}]

\* the switch on plan.action, up to the executor's fetch or to the final fetch
Dispatch(s) ==
    IF s.plan.type = "null"
    THEN CatchSend(s, LocalErr("dispatch", "TypeError"))
    ELSE IF ActionOf(s.plan) \notin Supported
    THEN FormatAndAsk(s)
    ELSE IF HandlerRejects(s.plan)
    THEN FormatAndAsk([s EXCEPT !.actionDesc = InvalidDesc(ActionOf(s.plan))])
    ELSE LET t == [s EXCEPT !.execInvoked = @ + 1, !.call = CallOf(s.apiKey, s.plan)]
         IN  IF ActionOf(s.plan) = "createJob" /\ CreateJobThrows(s.plan)
             THEN CatchSend(t, LocalErr("dispatch", "precondition"))
             ELSE [t EXCEPT !.pc = "execCall", !.execCalls = @ + 1,
                            !.keysUsed = @ \cup {t.call.key}]

\* ----------------------------------------------------- handleFetchModels
\* handleApiError, up to its first await
HandleApiError(s, e) ==
    IF e.marker
    THEN [s EXCEPT !.err = e, !.pc = "prompt", !.prompts = @ + 1]
    ELSE [Post(s, <<"error">>) EXCEPT !.err = e, !.pc = "done"]

\* the catch block of handleSendMessage calling callLLM again with the new key
AfterUpdateRetryFinal(s, key) ==
    IF s.kind = "sendMessage"
    THEN [s EXCEPT !.pc = "finalCall", !.retries = @ + 1, !.llmCalls = @ + 1,
                   !.keysUsed = @ \cup {key}, !.apiKey = key]
    ELSE [s EXCEPT !.pc = "retryCall", !.retries = @ + 1, !.execCalls = @ + 1,
                   !.keysUsed = @ \cup {key},
                   !.call = [NoCall EXCEPT !.fn = "fetchModels", !.key = key]]

\* handleApiError would start retryCallback(newApiKey) for either handler
AfterUpdateRetryAlways(s, key) ==
    [s EXCEPT !.pc = "retryCall", !.retries = @ + 1, !.execCalls = @ + 1,
              !.keysUsed = @ \cup {key},
              !.call = [NoCall EXCEPT !.fn = "fetchModels", !.key = key]]

\* after updateApiKey has returned a key: handleSendMessage shows "Please
\* retry your request" and returns, handleApiError starts retryCallback
AfterUpdate(s, key) ==
    IF s.kind = "sendMessage"
    THEN [s EXCEPT !.pc = "done"]
    ELSE [s EXCEPT !.pc = "retryCall", !.retries = @ + 1, !.execCalls = @ + 1,
                   !.keysUsed = @ \cup {key},
                   !.call = [NoCall EXCEPT !.fn = "fetchModels", !.key = key]]

\* a failed retry classified again
RetryFailedClassified(s, e) ==
    IF e.marker
    THEN [s EXCEPT !.retryErr = e, !.pc = "prompt", !.prompts = @ + 1]
    ELSE [Post(s, <<"error">>) EXCEPT !.retryErr = e, !.pc = "done"]

\* the catch around retryCallback in handleApiError
RetryFailed(s, e) ==
    [Post(s, <<"error">>) EXCEPT !.retryErr = e, !.pc = "done"]

\* the planning call started without the typing message
WithKeyQuiet(s, key) ==
    IF key = NoKey
    THEN [Post(s, <<"error">>) EXCEPT !.pc = "done", !.err = LocalErr("key", "missing")]
    ELSE IF s.kind = "sendMessage"
    THEN [s EXCEPT !.apiKey = key, !.pc = "planCall", !.llmCalls = @ + 1,
                   !.keysUsed = @ \cup {key}]
    ELSE [s EXCEPT !.apiKey = key, !.pc = "modelsCall", !.execCalls = @ + 1,
                   !.keysUsed = @ \cup {key},
                   !.call = [NoCall EXCEPT !.fn = "fetchModels", !.key = key]]

\* the typing message posted before the key is looked at
WithKeyTypingFirst(s, key) ==
    IF key = NoKey
    THEN [Post(s, IF s.kind = "sendMessage" THEN <<"typing", "error">> ELSE <<"error">>)
              EXCEPT !.pc = "done", !.err = LocalErr("key", "missing")]
    ELSE IF s.kind = "sendMessage"
    THEN [Post(s, <<"typing">>) EXCEPT !.apiKey = key, !.pc = "planCall", !.llmCalls = @ + 1,
                                       !.keysUsed = @ \cup {key}]
    ELSE [s EXCEPT !.apiKey = key, !.pc = "modelsCall", !.execCalls = @ + 1,
                   !.keysUsed = @ \cup {key},
                   !.call = [NoCall EXCEPT !.fn = "fetchModels", !.key = key]]

\* after getApiKey has returned key
WithKey(s, key) ==
    IF key = NoKey
    THEN [Post(s, <<"error">>) EXCEPT !.pc = "done", !.err = LocalErr("key", "missing")]
    ELSE IF s.kind = "sendMessage"
    THEN [Post(s, <<"typing">>) EXCEPT !.apiKey = key, !.pc = "planCall", !.llmCalls = @ + 1,
                                       !.keysUsed = @ \cup {key}]
    ELSE [s EXCEPT !.apiKey = key, !.pc = "modelsCall", !.execCalls = @ + 1,
                   !.keysUsed = @ \cup {key},
                   !.call = [NoCall EXCEPT !.fn = "fetchModels", !.key = key]]

\* ------------------------------------------------------- generic rendering
\* payload strings: sequences of characters, a plain one and the five the
\* formatter replaces
Markup == {"&", "<", ">", "\"", "'"}
Chars == {"a"} \cup Markup
Strings == SeqsUpTo(Chars, MaxStrLen)

\* an own key of the name of the method the formatter calls on the payload
HasOwn == <<"hasOwnProperty">>
ObjKeys == { <<>>, <<"a", "<">>, HasOwn } \cup { <<c>> : c \in Chars }

\* JSON values: t is the type, s the characters of a string or the text a
\* number or null is printed as, kv the own keys of an object or array in
\* enumeration order with their values
Str(s) == [t |-> "string", s |-> s, kv |-> <<>>]
Num == [t |-> "number", s |-> <<"1">>, kv |-> <<>>]
JNull == [t |-> "null", s |-> <<"n", "u", "l", "l">>, kv |-> <<>>]
Entry(k, v) == [k |-> k, v |-> v]
Obj(kv) == [t |-> "object", s |-> <<>>, kv |-> kv]
IndexKey(i) == IF i = 1 THEN <<"0">> ELSE <<"1">>
Arr(items) ==
    [t |-> "array", s |-> <<>>,
     kv |-> [i \in 1..Len(items) |-> Entry(IndexKey(i), items[i])]]

Leaves == { Str(s) : s \in Strings } \cup {Num, JNull}
Few(d) == {Num, Str(<<"<">>)} \cup
          (IF d > 1 THEN {Obj(<<Entry(<<"a">>, Str(<<"&">>))>>)} ELSE {})

\* the values nested at most d deep
RECURSIVE Values(_)
Values(d) ==
    IF d = 0 THEN Leaves
    ELSE LET sub == Values(d - 1) IN
         sub \cup {Obj(<<>>), Arr(<<>>)}
             \cup { Obj(<<Entry(k, v)>>) : k \in ObjKeys, v \in sub }
             \cup { Obj(<<Entry(kk[1], Num), Entry(kk[2], v)>>) :
                      kk \in {x \in ObjKeys \X ObjKeys : x[1] # x[2]}, v \in Few(d) }
             \cup { Arr(<<v>>) : v \in sub }
             \cup { Arr(<<Num, v>>) : v \in Few(d) }

Payloads == Values(MaxDepth)

\* String.prototype.replace with a /c/g pattern
RECURSIVE ReplaceAll(_, _, _)
ReplaceAll(s, c, ent) ==
    IF s = <<>> THEN <<>>
    ELSE (IF Head(s) = c THEN ent ELSE <<Head(s)>>) \o ReplaceAll(Tail(s), c, ent)

Entity(c) ==
    CASE c = "&" -> <<"&", "a", "m", "p", ";">>
      [] c = "<" -> <<"&", "l", "t", ";">>
      [] c = ">" -> <<"&", "g", "t", ";">>
      [] c = "\"" -> <<"&", "q", "u", "o", "t", ";">>
      [] c = "'" -> <<"&", "#", "0", "3", "9", ";">>

\* escapeHtml, and the text its result has inside the template literal
escapeHtml(value) ==
    IF value.t # "string" THEN value.s
    ELSE ReplaceAll(ReplaceAll(ReplaceAll(ReplaceAll(ReplaceAll(value.s,
             "&", Entity("&")), "<", Entity("<")), ">", Entity(">")),
             "\"", Entity("\"")), "'", Entity("'"))

IsObject(value) == value.t \in {"object", "array"}

\* obj.hasOwnProperty is the payload's own property when it has one of that
\* name, and no JSON value is a function
OwnShadowed(obj) == \E i \in DOMAIN obj.kv : obj.kv[i].k = HasOwn

\* formatJsonToHtml: the markup as a sequence of tags and characters, or the
\* TypeError thrown
RECURSIVE formatJsonToHtml(_), FormatEntries(_, _)
FormatEntries(kv, i) ==
    IF i > Len(kv) THEN [threw |-> FALSE, html |-> <<>>]
    ELSE LET value == kv[i].v
             inner == IF IsObject(value) THEN formatJsonToHtml(value)
                      ELSE [threw |-> FALSE, html |-> escapeHtml(value)]
             rest == FormatEntries(kv, i + 1)
         IN  [threw |-> inner.threw \/ rest.threw,
              html |-> <<"<li><strong>">> \o escapeHtml(Str(kv[i].k)) \o
                       <<":</strong> ">> \o inner.html \o <<"</li>">> \o rest.html]

formatJsonToHtml(obj) ==
    IF IsObject(obj)
    THEN IF OwnShadowed(obj) THEN [threw |-> TRUE, html |-> <<>>]
         ELSE LET body == FormatEntries(obj.kv, 1)
              IN  [threw |-> body.threw,
                   html |-> <<"<ul>">> \o body.html \o <<"</ul>">>]
    ELSE [threw |-> FALSE, html |-> escapeHtml(obj)]

\* no payload rendered yet
NoFmt == [obj |-> JNull, done |-> FALSE, threw |-> FALSE, html |-> <<>>]

\* what script.js shows: whether a .typing-message element exists, the number
\* of .error-message elements, the number of assistant messages, whether the
\* model selector is filled, and the type of the last message handled
EmptyDom == [typing |-> FALSE, errors |-> 0, answers |-> 0, models |-> FALSE,
             last |-> "none"]

\* ----------------------------------------------------------------- actions
Set(r, s) == run' = [run EXCEPT ![r] = s]

Init ==
    /\ run = [r \in Runs |-> IdleRun]
    /\ store = NoKey
    /\ cleared = FALSE
    /\ panel = NoPanel
    /\ panels = {}
    /\ created = 0
    /\ revealed = FALSE
    /\ dom = EmptyDom
    /\ inbox = [r \in Runs |-> <<>>]
    /\ fmt = NoFmt

\* the failure of the request before handed on to the next invocation
ReceiveKeepsFailure(r, kind) ==
    /\ panel # NoPanel
    /\ run[r].pc \in {"idle", "done"}
    /\ IF kind \in {"fetchModels", "sendMessage"}
       THEN Set(r, [IdleRun EXCEPT !.kind = kind, !.pc = "getKey", !.panelId = panel,
                                   !.err = run[r].err])
       ELSE Set(r, [Post(IdleRun, <<"error">>) EXCEPT !.kind = kind, !.pc = "done",
                        !.panelId = panel,
                        !.err = LocalErr("switch", "unhandled")])
    /\ UNCHANGED <<store, cleared, view, fmt>>

\* a message taken up only when no other handler invocation is in flight
ReceiveSerialized(r, kind) ==
    /\ panel # NoPanel
    /\ \A q \in Runs \ {r} : run[q].pc \in {"idle", "done"}
    /\ run[r].pc \in {"idle", "done"}
    /\ IF kind \in {"fetchModels", "sendMessage"}
       THEN Set(r, [IdleRun EXCEPT !.kind = kind, !.pc = "getKey", !.panelId = panel])
       ELSE Set(r, [Post(IdleRun, <<"error">>) EXCEPT !.kind = kind, !.pc = "done",
                        !.panelId = panel,
                        !.err = LocalErr("switch", "unhandled")])
    /\ UNCHANGED <<store, cleared, view, fmt>>

\* extension.ts: onDidReceiveMessage -> handleWebviewMessage, up to the await
\* of context.secrets.get
Receive(r, kind) ==
    /\ panel # NoPanel
    /\ run[r].pc \in {"idle", "done"}
    /\ IF kind \in {"fetchModels", "sendMessage"}
       THEN Set(r, [IdleRun EXCEPT !.kind = kind, !.pc = "getKey", !.panelId = panel])
       ELSE Set(r, [Post(IdleRun, <<"error">>) EXCEPT !.kind = kind, !.pc = "done",
                        !.panelId = panel,
                        !.err = LocalErr("switch", "unhandled")])
    /\ UNCHANGED <<store, cleared, view, fmt>>

\* getApiKey: the stored key if there is one, else the input box opens
GetApiKey(r) ==
    /\ run[r].pc = "getKey"
    /\ IF store # NoKey
       THEN Set(r, WithKey([run[r] EXCEPT !.reads = @ + 1], store))
       ELSE Set(r, [run[r] EXCEPT !.pc = "keyInput", !.reads = @ + 1])
    /\ UNCHANGED <<store, cleared, view, fmt>>

\* getApiKey: the user answers the input box (NoKey: cancelled or empty)
KeyInput(r, input) ==
    /\ run[r].pc = "keyInput"
    /\ store' = IF input # NoKey THEN input ELSE store
    /\ cleared' = IF input # NoKey THEN FALSE ELSE cleared
    /\ Set(r, WithKey(run[r], input))
    /\ UNCHANGED <<view, fmt>>

\* the planning callLLM returns; extraction and dispatch follow
PlanReply(r, replies) ==
    /\ run[r].pc = "planCall"
    /\ \E resp \in Responses :
          IF resp = "ok"
          THEN \E reply \in replies :
                  Set(r, Dispatch([run[r] EXCEPT !.reply = reply, !.planned = TRUE,
                                                 !.plan = ExtractPlan(reply)]))
          ELSE Set(r, CatchSend(run[r], ErrOf("callLLM", resp, "plan")))
    /\ UNCHANGED <<store, cleared, view, fmt>>

\* the executor's fetch returns
ExecReply(r) ==
    /\ run[r].pc = "execCall"
    /\ \E resp \in Responses :
          IF resp = "ok"
          THEN \E payload \in PayloadsOf(run[r].call.fn) :
                  Set(r, FormatAndAsk([run[r] EXCEPT !.rawApiResponse = payload,
                                                     !.body = payload,
                                                     !.actionDesc = ActionOf(run[r].plan)]))
          ELSE Set(r, CatchSend(run[r], ErrOf(run[r].call.fn, resp, "dispatch")))
    /\ UNCHANGED <<store, cleared, view, fmt>>

\* the answer posted before the outcome of the final callLLM is looked at
FinalReplyAnswersFirst(r, resp) ==
    /\ run[r].pc = "finalCall"
    /\ IF resp = "ok"
       THEN Set(r, [Post(run[r], <<"clearError", "answer">>) EXCEPT !.pc = "done"])
       ELSE Set(r, CatchSend(Post(run[r], <<"clearError", "answer">>),
                             ErrOf("callLLM", resp, "final")))
    /\ UNCHANGED <<store, cleared, view, fmt>>

\* the final callLLM returns
FinalReply(r, resp) ==
    /\ run[r].pc = "finalCall"
    /\ IF resp = "ok"
       THEN Set(r, [Post(run[r], <<"clearError", "answer">>) EXCEPT !.pc = "done"])
       ELSE Set(r, CatchSend(run[r], ErrOf("callLLM", resp, "final")))
    /\ UNCHANGED <<store, cleared, view, fmt>>

\* the models message posted without the list
PostModelsEmpty(s, models) ==
    [Post(s, <<"clearError", "models">>) EXCEPT !.body = models, !.pc = "done"]

\* postMessage clearError, then postMessage {type: "models", models}
PostModels(s, models) ==
    [Post(s, <<"clearError", "models">>) EXCEPT !.body = models, !.sent = models,
                                                 !.pc = "done"]

\* handleFetchModels: fetchModels returns
ModelsReply(r, resp) ==
    /\ run[r].pc = "modelsCall"
    /\ IF resp = "ok"
       THEN \E models \in PayloadsOf("fetchModels") : Set(r, PostModels(run[r], models))
       ELSE Set(r, HandleApiError(run[r], ErrOf("fetchModels", resp, "models")))
    /\ UNCHANGED <<store, cleared, view, fmt>>

\* the user answers showErrorMessage("Invalid qBraid API Key...", "Update API Key")
PromptChoice(r, update) ==
    /\ run[r].pc = "prompt"
    /\ IF update
       THEN Set(r, [run[r] EXCEPT !.pc = "newKey"])
       ELSE Set(r, [run[r] EXCEPT !.pc = "done", !.refresh = "declined"])
    /\ UNCHANGED <<store, cleared, view, fmt>>

\* updateApiKey returning the entered key without storing it
NewKeyInputUnstored(r, input) ==
    /\ run[r].pc = "newKey"
    /\ UNCHANGED <<store, cleared>>
    /\ IF input = NoKey
       THEN Set(r, [run[r] EXCEPT !.pc = "done", !.refresh = "cancelled"])
       ELSE Set(r, AfterUpdate([run[r] EXCEPT !.refresh = "supplied",
                                              !.newApiKey = input], input))
    /\ UNCHANGED <<view, fmt>>

\* updateApiKey: the user answers the input box
NewKeyInput(r, input) ==
    /\ run[r].pc = "newKey"
    /\ store' = IF input # NoKey THEN input ELSE store
    /\ cleared' = IF input # NoKey THEN FALSE ELSE cleared
    /\ IF input = NoKey
       THEN Set(r, [run[r] EXCEPT !.pc = "done", !.refresh = "cancelled"])
       ELSE Set(r, AfterUpdate([run[r] EXCEPT !.refresh = "supplied",
                                              !.newApiKey = input], input))
    /\ UNCHANGED <<view, fmt>>

\* retryCallback of handleFetchModels: fetchModels(newApiKey) returns
RetryReply(r) ==
    /\ run[r].pc = "retryCall"
    /\ \E resp \in Responses :
          IF resp = "ok"
          THEN \E models \in PayloadsOf("fetchModels") : Set(r, PostModels(run[r], models))
          ELSE Set(r, RetryFailed(run[r], ErrOf("fetchModels", resp, "retry")))
    /\ UNCHANGED <<store, cleared, view, fmt>>

\* the command leaving the stored key in place
ClearApiKeyKeeps ==
    /\ store # NoKey
    /\ store' = store
    /\ cleared' = TRUE
    /\ UNCHANGED <<run, view, fmt>>

\* command qbraid-chat.clearApiKey
ClearApiKey ==
    /\ store # NoKey
    /\ store' = NoKey
    /\ cleared' = TRUE
    /\ UNCHANGED <<run, view, fmt>>

\* ---------------------------------------------------------------- webview
\* the listener of script.js: the switch on msg.type
Listener(d, m) ==
    CASE m = "models" -> [d EXCEPT !.models = TRUE, !.last = m]
      [] m = "typing" -> [d EXCEPT !.typing = TRUE, !.last = m]
      [] m = "answer" -> [d EXCEPT !.typing = FALSE, !.answers = @ + 1, !.last = m]
      [] m = "error" -> [d EXCEPT !.typing = FALSE, !.errors = @ + 1, !.last = m]
      [] OTHER -> [d EXCEPT !.last = m]

\* the messages one handler invocation posts, in its order
Scripts ==
    { <<"clearError", "models">>, <<"error">>, <<"typing">>,
      <<"typing", "clearError", "answer">>, <<"typing", "clearError", "error">> }

\* a handler invocation posts its messages to the webview
WebviewPost(r, script) ==
    /\ panel # NoPanel
    /\ inbox[r] = <<>>
    /\ inbox' = [inbox EXCEPT ![r] = script]
    /\ UNCHANGED <<run, store, cleared, panel, panels, created, revealed, dom, fmt>>

\* the webview handles the next message of invocation r
WebviewHandle(r) ==
    /\ inbox[r] # <<>>
    /\ Head(inbox[r]) = "error" => dom.errors < MaxShown
    /\ Head(inbox[r]) = "answer" => dom.answers < MaxShown
    /\ dom' = Listener(dom, Head(inbox[r]))
    /\ inbox' = [inbox EXCEPT ![r] = Tail(@)]
    /\ UNCHANGED <<run, store, cleared, panel, panels, created, revealed, fmt>>

\* createWebview without its "if (panel)" branch
CreateWebviewAlways ==
    /\ created < MaxPanels
    /\ created' = created + 1
    /\ panel' = created + 1
    /\ panels' = panels \cup {created + 1}
    /\ revealed' = FALSE
    /\ dom' = EmptyDom
    /\ UNCHANGED <<run, store, cleared, inbox, fmt>>

\* command qbraid-chat.start
CreateWebview ==
    /\ IF panel # NoPanel
       THEN /\ revealed' = TRUE
            /\ UNCHANGED <<panel, panels, created, dom>>
       ELSE /\ created < MaxPanels
            /\ created' = created + 1
            /\ panel' = created + 1
            /\ panels' = panels \cup {created + 1}
            /\ revealed' = FALSE
            /\ dom' = EmptyDom
    /\ UNCHANGED <<run, store, cleared, inbox, fmt>>

\* the start command run while no panel is shown
OpenPanel == panel = NoPanel /\ CreateWebview

\* the user closes a panel: its onDidDispose callback runs
DisposePanel ==
    /\ \E p \in panels : panels' = panels \ {p}
    /\ panel' = NoPanel
    /\ revealed' = FALSE
    /\ UNCHANGED <<run, store, cleared, created, dom, inbox, fmt>>

MessageKinds == {"fetchModels", "sendMessage", "other"}

Step(r, replies) ==
    \/ \E kind \in MessageKinds : Receive(r, kind)
    \/ GetApiKey(r)
    \/ \E input \in Keys \cup {NoKey} : KeyInput(r, input)
    \/ PlanReply(r, replies)
    \/ ExecReply(r)
    \/ \E resp \in Responses : FinalReply(r, resp)
    \/ \E resp \in Responses : ModelsReply(r, resp)
    \/ \E update \in BOOLEAN : PromptChoice(r, update)
    \/ \E input \in Keys \cup {NoKey} : NewKeyInput(r, input)
    \/ RetryReply(r)

\* one message handled at a time, every plan document
Next ==
    \/ \E r \in SoloRuns : Step(r, MainReplies)
    \/ ClearApiKey
    \/ CreateWebview
    \/ DisposePanel

Spec == Init /\ [][Next]_vars

\* one message handled at a time, any text around the fenced blocks
NextExtract ==
    \/ \E r \in SoloRuns : Step(r, ExtractReplies)
    \/ ClearApiKey
    \/ OpenPanel

SpecExtract == Init /\ [][NextExtract]_vars

\* the reply that plans listJobs
PairReplies ==
    { <<Tok("open"), Tok("ws"), JsonTok(WithAction("listJobs")), Tok("ws"), Tok("close")>> }

\* a sendMessage request handled by run r
StepSend(r, replies) ==
    \/ Receive(r, "sendMessage")
    \/ GetApiKey(r)
    \/ \E input \in Keys \cup {NoKey} : KeyInput(r, input)
    \/ PlanReply(r, replies)
    \/ ExecReply(r)
    \/ \E resp \in Responses : FinalReply(r, resp)
    \/ \E update \in BOOLEAN : PromptChoice(r, update)
    \/ \E input \in Keys \cup {NoKey} : NewKeyInput(r, input)

\* sendMessage requests handled side by side: the webview posts the next
\* message while the handler of an earlier one is still awaiting
NextPair ==
    \/ \E r \in Runs : StepSend(r, PairReplies)
    \/ OpenPanel

SpecPair == Init /\ [][NextPair]_vars

\* the webview alone: the messages of handler invocations arrive, those of
\* one invocation in their order, those of different invocations interleaved
NextWebview ==
    \/ OpenPanel
    \/ \E r \in Runs, script \in Scripts : WebviewPost(r, script)
    \/ \E r \in Runs : WebviewHandle(r)

SpecWebview == Init /\ [][NextWebview]_vars

\* the formatter alone, applied to one payload
RenderPayload ==
    /\ ~fmt.done
    /\ LET res == formatJsonToHtml(fmt.obj)
       IN  fmt' = [fmt EXCEPT !.done = TRUE, !.threw = res.threw, !.html = res.html]
    /\ UNCHANGED <<run, store, cleared, view>>

InitFormat ==
    /\ run = [r \in Runs |-> IdleRun]
    /\ store = NoKey
    /\ cleared = FALSE
    /\ panel = NoPanel
    /\ panels = {}
    /\ created = 0
    /\ revealed = FALSE
    /\ dom = EmptyDom
    /\ inbox = [r \in Runs |-> <<>>]
    /\ fmt \in { [NoFmt EXCEPT !.obj = v] : v \in Payloads }

NextFormat == RenderPayload

SpecFormat == InitFormat /\ [][NextFormat]_vars

\* ================================================================ claims
SendRuns == { r \in Runs : run[r].kind = "sendMessage" }
Planned == { r \in SendRuns : run[r].planned }

\* the pieces strictly between i and j are one JSON text m inside whitespace
Encloses(reply, i, j, m) ==
    /\ i < m /\ m < j
    /\ reply[i].k = "open"
    /\ reply[j].k \in {"open", "close"}
    /\ reply[m].k = "json"
    /\ \A n \in (i + 1)..(j - 1) : n # m => reply[n].k = "ws"

\* i..j is a ```json fenced block whose content is the JSON text at m
BlockAt(reply, i, j, m) ==
    /\ {i, j, m} \subseteq DOMAIN reply
    /\ Encloses(reply, i, j, m)

FirstOpenAt(reply, i) ==
    /\ i \in DOMAIN reply
    /\ reply[i].k = "open"
    /\ \A n \in 1..(i - 1) : reply[n].k # "open"

\* the validators of the action catalog: what makes a plan's parameters valid
SpecValid(d) ==
    /\ d.type = "object"
    /\ "action" \in d.has
    /\ d.action \in Supported
    /\ d.action = "createJob" =>
          /\ "qbraidDeviceId" \in d.has /\ d.qbraidDeviceId # ""
          /\ "shots" \in d.has /\ d.shots > 0
          /\ ("bitcode" \in d.has /\ d.bitcode # "") # ("openQasm" \in d.has /\ d.openQasm # "")
    /\ d.action \in {"cancelJob", "deleteJob"} => "jobId" \in d.has /\ d.jobId # ""
    /\ d.action = "sendChat" => "prompt" \in d.has /\ d.prompt # ""

\* C1 as stated: whenever the planning reply contains a ```json block whose
\* content is a well-formed document naming a recognized action with valid
\* parameters, the extracted plan is that document, whatever surrounds the block.
C1_AnyBlock ==
    \A r \in Planned :
       \A i, j, m \in DOMAIN run[r].reply :
          (BlockAt(run[r].reply, i, j, m) /\ SpecValid(run[r].reply[m].d))
             => run[r].plan = run[r].reply[m].d

\* C1 amended: when the FIRST ```json block of the planning reply holds a
\* well-formed document naming a recognized action with valid parameters, the
\* extracted plan is that document, whatever text precedes and follows the block.
C1_FirstBlockRoundTrip ==
    \A r \in Planned :
       \A i, j, m \in DOMAIN run[r].reply :
          (/\ FirstOpenAt(run[r].reply, i)
           /\ BlockAt(run[r].reply, i, j, m)
           /\ SpecValid(run[r].reply[m].d))
             => run[r].plan = run[r].reply[m].d

\* text, then a block holding cancelJob abc123, then text: the job id was
\* read from the block and the cancel call is in flight
C1_Witness ==
    \E r \in Planned :
       /\ Len(run[r].reply) = 5
       /\ run[r].reply[1].k = "text" /\ run[r].reply[5].k = "text"
       /\ BlockAt(run[r].reply, 2, 4, 3)
       /\ run[r].plan.action = "cancelJob" /\ run[r].plan.jobId = "abc123"
       /\ run[r].pc = "execCall"

\* the reply has no ```json ... ``` pair at all
NoFencedBlock(reply) ==
    ~ \E i, j \in DOMAIN reply :
         i < j /\ reply[i].k = "open" /\ reply[j].k \in {"open", "close"}

\* the first block's content is not one JSON text inside whitespace
FirstBlockUnparseable(reply) ==
    \E i, j \in DOMAIN reply :
       /\ i < j
       /\ FirstOpenAt(reply, i)
       /\ reply[j].k \in {"open", "close"}
       /\ \A n \in (i + 1)..(j - 1) : reply[n].k \notin {"open", "close"}
       /\ ~ \E m \in DOMAIN reply : Encloses(reply, i, j, m)

\* C2: a planning reply without a ```json block, or whose first block does not
\* parse, gives the plan {action:"none"}; nothing is thrown by the extraction,
\* the run goes on through dispatch (calling no executor) to the final model
\* call, and an error message can only come from that final call.
C2_ParseFailureDegrades ==
    \A r \in Planned :
       (NoFencedBlock(run[r].reply) \/ FirstBlockUnparseable(run[r].reply))
          => /\ run[r].plan = NonePlan
             /\ run[r].execInvoked = 0
             /\ run[r].llmCalls = 2
             /\ run[r].err.step \in {"none", "final"}
             /\ (run[r].err = NoErr /\ run[r].pc = "done")
                   => run[r].out = <<"typing", "clearError", "answer">>

\* a block holding plain text was answered in prose
C2_Witness ==
    \E r \in Planned :
       /\ run[r].reply = <<Tok("open"), Tok("text"), Tok("close")>>
       /\ run[r].plan = NonePlan
       /\ run[r].pc = "done"
       /\ run[r].out = <<"typing", "clearError", "answer">>

\* the plan is an object whose action is "none" or a name outside the seven
Unrecognized(plan) ==
    /\ plan.type = "object"
    /\ "action" \in plan.has
    /\ plan.action \notin Supported

Count(seq, x) == Cardinality({ n \in DOMAIN seq : seq[n] = x })

\* C3 as stated: for a plan whose action is "none" or unknown no executor is
\* invoked, formatting is handed a validation failure described as
\* "no recognized action", and the run ends with an answer, not an error.
C3_NoneIsValidationFailure ==
    \A r \in Planned :
       Unrecognized(run[r].plan)
          => /\ run[r].execInvoked = 0 /\ run[r].execCalls = 0
             /\ run[r].rawApiResponse = ErrObj("no recognized action")
             /\ run[r].pc = "done" => run[r].out = <<"typing", "clearError", "answer">>

\* C3 amended: for a plan whose action is "none" or unknown no executor is
\* invoked and no downstream call is made, formatting is handed the null
\* result with an empty action description (rendered as "none") by the
\* generic strategy, the second model call is made, no error arises before
\* it, and when that call succeeds the run ends with an answer and no error.
C3_NoneDispatchesNothing ==
    \A r \in Planned :
       Unrecognized(run[r].plan)
          => /\ run[r].execInvoked = 0 /\ run[r].execCalls = 0
             /\ run[r].call = NoCall
             /\ run[r].rawApiResponse = Null /\ run[r].actionDesc = ""
             /\ run[r].strategy = "generic"
             /\ run[r].llmCalls = 2
             /\ run[r].err.step \in {"none", "final"}
             /\ (run[r].err = NoErr /\ run[r].pc = "done")
                   => run[r].out = <<"typing", "clearError", "answer">>

\* a block naming the unknown action "explain" was answered in prose
C3_Witness ==
    \E r \in Planned :
       /\ run[r].plan = WithAction("explain")
       /\ run[r].pc = "done"
       /\ run[r].out = <<"typing", "clearError", "answer">>

\* C4: a createJob plan with both circuit encodings, or with neither, makes
\* no network call and gives a validation-failure outcome that is handed to
\* formatting: dispatch raises no pipeline error for it.
C4_BothOrNeitherIsValidationFailure ==
    \A r \in Planned :
       (/\ ActionOf(run[r].plan) = "createJob"
        /\ Truthy(run[r].plan, "bitcode") = Truthy(run[r].plan, "openQasm"))
          => /\ run[r].execCalls = 0
             /\ run[r].rawApiResponse.kind = "error"
             /\ run[r].llmCalls = 2
             /\ run[r].err.step # "dispatch"

\* C5: a run makes exactly one executor network call when its plan names a
\* recognized action with valid parameters, and none otherwise.
C5_OneCallIffValid ==
    \A r \in Planned :
       run[r].execCalls = IF SpecValid(run[r].plan) THEN 1 ELSE 0

\* the executor call of a sendMessage run was rejected with 401 and the user
\* then entered a new key
ExecAuthRefreshed(r) ==
    /\ run[r].kind = "sendMessage"
    /\ run[r].err.step = "dispatch" /\ run[r].err.why = "401"
    /\ run[r].refresh = "supplied"

C7_DeclinedRefreshPostsError ==
    \A r \in Runs :
       (/\ run[r].pc = "done"
        /\ run[r].err.why = "401"
        /\ run[r].refresh \in {"declined", "cancelled"})
          => Count(run[r].out, "error") >= 1

\* C8: within one request the refresh prompt is shown at most once and at
\* most one retry is made; a failed retry (also one failing with 401) ends the
\* request with an error message, with no further prompt or retry.
C8_OnePromptOneRetry ==
    \A r \in Runs :
       /\ run[r].prompts <= 1
       /\ run[r].retries <= 1
       /\ run[r].retries <= run[r].prompts
       /\ run[r].retryErr # NoErr
             => /\ run[r].pc = "done"
                /\ run[r].prompts = 1 /\ run[r].retries = 1
                /\ run[r].out = <<"error">>

\* the retry of fetchModels was itself rejected with 401
C8_Witness ==
    \E r \in Runs :
       /\ run[r].kind = "fetchModels"
       /\ run[r].err.why = "401"
       /\ run[r].retryErr.why = "401"
       /\ run[r].pc = "done"

\* C9: a failed model call or executor call that is not an HTTP 401 opens no
\* refresh prompt, is not retried, and ends the request with an error message.
C9_NonAuthFailureIsTerminal ==
    \A r \in Runs :
       (/\ run[r].err.step \in {"plan", "dispatch", "final", "models"}
        /\ run[r].err.why \in {"fail", "failMarker", "badBody", "precondition"})
          => /\ run[r].prompts = 0
             /\ run[r].retries = 0
             /\ run[r].pc = "done"
             /\ Count(run[r].out, "error") = 1

\* the request ended without an answer or a models message
EndedInFailure(r) ==
    /\ run[r].kind \in {"fetchModels", "sendMessage"}
    /\ run[r].pc = "done"
    /\ Count(run[r].out, "answer") = 0
    /\ Count(run[r].out, "models") = 0

\* C10: a fetchModels or sendMessage request that ends in a terminal failure has posted exactly one error
\* message, and a clearError immediately before it.
C10_OneErrorAfterClearError ==
    \A r \in Runs :
       EndedInFailure(r)
          => /\ Count(run[r].out, "error") = 1
             /\ \A n \in DOMAIN run[r].out :
                   run[r].out[n] = "error"
                      => n > 1 /\ run[r].out[n - 1] = "clearError"

\* the plan names one of the seven actions and its parameters fail validation
InvalidRecognized(plan) ==
    /\ ActionOf(plan) \in Supported
    /\ ~SpecValid(plan)

\* C11: a validation failure of a recognized action (missing or contradictory
\* required parameters) is not reported as a pipeline error: no executor call
\* is awaited for it, its description is handed to formatting as an
\* error-shaped outcome, the second model call is made, and when that call
\* succeeds the request ends with an answer and no error message.
C11_ValidationFailureIsAnswered ==
    \A r \in Planned :
       InvalidRecognized(run[r].plan)
          => /\ run[r].rawApiResponse.kind = "error"
             /\ run[r].llmCalls = 2
             /\ run[r].err.step \in {"none", "final"}
             /\ (run[r].err = NoErr /\ run[r].pc = "done")
                   => run[r].out = <<"typing", "clearError", "answer">>

\* C12: when the handler of a sendMessage request that has posted typing has
\* returned, it has posted an answer or an error message (so every started
\* pipeline is followed by one of the two once its calls and prompts return).
C12_TypingEndsInAnswerOrError ==
    \A r \in Runs :
       (run[r].pc = "done" /\ Count(run[r].out, "typing") > 0)
          => Count(run[r].out, "answer") + Count(run[r].out, "error") >= 1

\* the keys of a set of <<key, value>> entries
KeysOf(entries) == { e[1] : e \in entries }

\* C13: for a getDevices plan the device request carries exactly the entries
\* of the plan's filters whose key is provider, type, status or isAvailable,
\* each with the plan's value; any other key is dropped without rejecting the
\* plan: the executor is called, no validation failure is produced, and when
\* the calls succeed the request ends with an answer.
C13_DeviceFiltersAllowListed ==
    \A r \in Planned :
       ActionOf(run[r].plan) = "getDevices"
          => /\ run[r].execInvoked = 1
             /\ run[r].call.fn = "getQuantumDevices"
             /\ KeysOf(run[r].call.filters) \subseteq AllowedFilters
             /\ \A e \in run[r].plan.filters :
                   e \in run[r].call.filters <=> e[1] \in AllowedFilters
             /\ run[r].call.filters \subseteq run[r].plan.filters
             /\ run[r].actionDesc \in {"", "getDevices"}
             /\ run[r].rawApiResponse.kind # "error"
             /\ (run[r].err = NoErr /\ run[r].pc = "done")
                   => run[r].out = <<"typing", "clearError", "answer">>

\* filters {provider: "AWS", bogus: "x"}: the request carried provider=AWS
\* only, the device list came back and was answered
C13_Witness ==
    \E r \in Planned :
       /\ run[r].plan.filters = {<<"provider", "AWS">>, <<"bogus", "x">>}
       /\ run[r].call.filters = {<<"provider", "AWS">>}
       /\ run[r].rawApiResponse = Payload("devices")
       /\ run[r].out = <<"typing", "clearError", "answer">>

\* C14: the createJob executor is invoked only for plans whose device id is
\* present and whose shot count is present and positive; a plan without a
\* device id, without a shot count, or with a zero or negative shot count
\* gives a validation failure and no executor call.
C14_CreateJobNeedsDeviceAndPositiveShots ==
    \A r \in Planned :
       ActionOf(run[r].plan) = "createJob"
          => LET p == run[r].plan
                 ok == /\ Truthy(p, "qbraidDeviceId")
                       /\ "shots" \in p.has /\ p.shots > 0
             IN  /\ run[r].execInvoked > 0 => ok
                 /\ ~ok => /\ run[r].execInvoked = 0
                           /\ run[r].rawApiResponse.kind = "error"

\* C15: a cancelJob or deleteJob plan without a job id gives a validation
\* failure carrying the action's human-readable reason and the executor is
\* never invoked (no network call); with a job id the cancel or delete
\* executor is invoked once, with exactly that job id.
C15_JobIdRequiredAndForwarded ==
    \A r \in Planned :
       ActionOf(run[r].plan) \in {"cancelJob", "deleteJob"}
          => IF "jobId" \in run[r].plan.has
             THEN /\ run[r].execInvoked = 1
                  /\ run[r].call.fn = ExecutorOf(ActionOf(run[r].plan))
                  /\ run[r].call.jobId = run[r].plan.jobId
             ELSE /\ run[r].execInvoked = 0 /\ run[r].execCalls = 0
                  /\ run[r].call = NoCall
                  /\ run[r].rawApiResponse = ErrObj(InvalidDesc(ActionOf(run[r].plan)))
                  /\ run[r].rawApiResponse.desc # ""

\* deleteJob without a job id was answered in prose from the failure reason
C15_Witness ==
    \E r \in Planned :
       /\ run[r].plan = WithAction("deleteJob")
       /\ run[r].rawApiResponse = ErrObj("Invalid deleteJob request: missing jobId.")
       /\ run[r].execInvoked = 0
       /\ run[r].out = <<"typing", "clearError", "answer">>

C17_FetchModelsBypassesPlanning ==
    \A r \in Runs :
       run[r].kind = "fetchModels"
          => /\ run[r].llmCalls = 0
             /\ ~run[r].planned /\ run[r].execInvoked = 0
             /\ run[r].call.fn \in {"none", "fetchModels"}
             /\ (run[r].pc = "done" /\ run[r].err = NoErr)
                   => /\ run[r].out = <<"clearError", "models">>
                      /\ run[r].body \in PayloadsOf("fetchModels")
                      /\ run[r].sent = run[r].body
             /\ Count(run[r].out, "models") > 0 => run[r].sent = run[r].body

\* fetchModels answered with the list at the first attempt
C17_Witness ==
    \E r \in Runs :
       /\ run[r].kind = "fetchModels"
       /\ run[r].pc = "done" /\ run[r].err = NoErr
       /\ run[r].execCalls = 1 /\ run[r].llmCalls = 0
       /\ run[r].sent = Payload("models")
       /\ run[r].out = <<"clearError", "models">>

\* request r planned listJobs
ListedJobs(r) ==
    /\ run[r].kind = "sendMessage"
    /\ run[r].planned
    /\ ActionOf(run[r].plan) = "listJobs"

\* C18: when two requests both dispatch listJobs, each makes its own
\* listAllJobs network call with its own credential (two calls, none served
\* from what the other fetched), and when both calls return the same list
\* both requests hand formatting the same result, action description and
\* strategy.
C18_ListJobsNotCached ==
    \A r1, r2 \in Runs :
       (r1 # r2 /\ ListedJobs(r1) /\ ListedJobs(r2))
          => /\ \A r \in {r1, r2} :
                   /\ run[r].execInvoked = 1 /\ run[r].execCalls = 1
                   /\ run[r].call.fn = "listAllJobs"
                   /\ run[r].call.key = run[r].apiKey
                   /\ run[r].rawApiResponse \in {Null, run[r].body}
             /\ (run[r1].body # Null /\ run[r1].body = run[r2].body)
                   => /\ run[r1].rawApiResponse = run[r2].rawApiResponse
                      /\ run[r1].actionDesc = run[r2].actionDesc
                      /\ run[r1].strategy = run[r2].strategy

\* two listJobs requests, each with its own call, both answered from the
\* same list
C18_Witness ==
    \E r1, r2 \in Runs :
       /\ r1 # r2 /\ ListedJobs(r1) /\ ListedJobs(r2)
       /\ run[r1].execCalls = 1 /\ run[r2].execCalls = 1
       /\ run[r1].body = Payload("jobs") /\ run[r2].body = Payload("jobs")
       /\ run[r1].out = <<"typing", "clearError", "answer">>
       /\ run[r2].out = <<"typing", "clearError", "answer">>

\* the cancel call of request r has returned successfully
CancelSucceeded(r) ==
    /\ run[r].kind = "sendMessage" /\ run[r].planned
    /\ ActionOf(run[r].plan) = "cancelJob"
    /\ "jobId" \in run[r].plan.has
    /\ run[r].body # Null

\* C19 as stated: for a cancelJob plan with a job id the cancel operation is
\* called with that job id and, on success, the payload the generic formatter
\* renders is a structure holding both a message and a job record.
C19_CancelRendersMessageAndJob ==
    \A r \in Runs :
       CancelSucceeded(r)
          => /\ run[r].call.fn = "cancelQuantumJob"
             /\ run[r].call.jobId = run[r].plan.jobId
             /\ run[r].strategy = "generic"
             /\ run[r].rawApiResponse = Payload("message+job")

\* C19 amended: for a cancelJob plan with a job id the cancel operation is
\* called once with that job id and, on success, the payload the generic
\* formatter renders is the structure cancelQuantumJob returns, which holds
\* the message only and no job record.
C19_CancelRendersMessage ==
    \A r \in Runs :
       CancelSucceeded(r)
          => /\ run[r].execCalls = 1
             /\ run[r].call.fn = "cancelQuantumJob"
             /\ run[r].call.jobId = run[r].plan.jobId
             /\ run[r].strategy = "generic"
             /\ run[r].actionDesc = "cancelJob"
             /\ run[r].rawApiResponse = Payload("message")

\* "cancel job abc123": the cancel call succeeded and was answered
C19_Witness ==
    \E r \in Runs :
       /\ CancelSucceeded(r)
       /\ run[r].call.jobId = "abc123"
       /\ run[r].rawApiResponse = Payload("message")
       /\ run[r].out = <<"typing", "clearError", "answer">>

\* C20: at most one chat panel exists at any time. While a panel exists no
\* step creates one, and the start command then only reveals the existing
\* panel; the panel variable is cleared exactly when no panel exists, so
\* after a dispose the next start command creates a panel, a new one.
C20_AtMostOnePanel ==
    [][ /\ Cardinality(panels') <= 1
        /\ (panel' = NoPanel) <=> (panels' = {})
        /\ panel' # NoPanel => panels' = {panel'}
        /\ panel # NoPanel => (created' = created /\ panels' \subseteq panels)
        /\ (panel # NoPanel /\ revealed' /\ ~revealed)
              => (panel' = panel /\ panels' = panels)
        /\ (panel = NoPanel /\ panel' # NoPanel)
              => /\ created' = created + 1
                 /\ panel' = created'
                 /\ panels' = {panel'} ]_vars

\* a panel was created, disposed, created anew by the next start command and
\* revealed by the one after
C20_Witness ==
    /\ created = 2
    /\ panel = 2 /\ panels = {2}
    /\ revealed

\* C21: after the clear-API-key command the store holds no key until one is
\* entered. A getApiKey that runs then returns no stored key: it opens the
\* input box before anything else is done for the request. The input box
\* either returns the entered key, which is stored, or returns undefined with
\* the store left as it was, and the request ends without a network call.
C21_ClearedKeyIsAskedAgain ==
    [][ /\ cleared' => store' = NoKey
        /\ \A r \in Runs :
             /\ (cleared /\ run[r].pc = "getKey" /\ run'[r] # run[r])
                   => /\ run'[r].pc = "keyInput"
                      /\ run'[r].apiKey = NoKey
                      /\ run'[r].llmCalls = 0 /\ run'[r].execCalls = 0
             /\ (run[r].pc = "keyInput" /\ run'[r] # run[r])
                   => \/ /\ run'[r].apiKey \in Keys
                         /\ store' = run'[r].apiKey
                         /\ ~cleared'
                      \/ /\ run'[r].apiKey = NoKey
                         /\ store' = store /\ cleared' = cleared
                         /\ run'[r].pc = "done"
                         /\ run'[r].llmCalls = 0 /\ run'[r].execCalls = 0 ]_vars

\* a key had been stored and was cleared; the next request is at the input box
C21_Witness ==
    \E r \in Runs :
       /\ cleared /\ store = NoKey
       /\ run[r].pc = "keyInput"
       /\ run[r].apiKey = NoKey

\* the final model call of request r was rejected with 401 and the user then
\* entered a new key
FinalAuthRefreshed(r) ==
    /\ run[r].kind = "sendMessage"
    /\ run[r].err.step = "final" /\ run[r].err.why = "401"
    /\ run[r].refresh = "supplied"

C23_PipelineOrder ==
    [][ \A r \in Runs :
          (run'[r].kind = "sendMessage")
             => /\ run'[r].llmCalls <= 2
                /\ run'[r].llmCalls >= 1
                      => (Len(run'[r].out) >= 1 /\ run'[r].out[1] = "typing")
                /\ (run'[r].execInvoked > 0 \/ run'[r].execCalls > 0)
                      => (run'[r].planned /\ run'[r].llmCalls >= 1)
                /\ (run[r].kind = "sendMessage" /\ run'[r].execCalls > run[r].execCalls)
                      => (run[r].pc = "planCall" /\ run'[r].llmCalls = 1)
                /\ (run[r].kind = "sendMessage" /\ run'[r].llmCalls > run[r].llmCalls
                       /\ run'[r].llmCalls = 2)
                      => /\ run[r].pc \in {"planCall", "execCall"}
                         /\ run'[r].planned
                         /\ run'[r].pc = "finalCall"
                         /\ run'[r].execCalls = run[r].execCalls
                         /\ run'[r].out = <<"typing">>
                /\ Count(run'[r].out, "answer") > 0
                      => /\ run'[r].out = <<"typing", "clearError", "answer">>
                         /\ run'[r].llmCalls = 2
                         /\ run'[r].pc = "done"
                         /\ run[r].pc \in {"finalCall", "done"} ]_vars

\* a createJob request answered: typing, planning call, executor call,
\* second call, clearError, answer
C23_Witness ==
    \E r \in Runs :
       /\ run[r].kind = "sendMessage"
       /\ run[r].call.fn = "createQuantumJob"
       /\ run[r].execCalls = 1 /\ run[r].llmCalls = 2
       /\ run[r].out = <<"typing", "clearError", "answer">>

\* C24: a sendMessage run reads the stored credential once, and every fetch
\* it makes (planning call, executor call, final call) carries the value it
\* read then, whatever the store holds by the time of the call.
C24_OneCredentialPerRun ==
    \A r \in Runs :
       run[r].kind = "sendMessage"
          => /\ run[r].reads <= 1
             /\ run[r].pc \notin {"idle", "getKey"} => run[r].reads = 1
             /\ run[r].keysUsed \subseteq {run[r].apiKey}
             /\ run[r].llmCalls + run[r].execCalls > 0
                   => (run[r].apiKey \in Keys /\ run[r].keysUsed = {run[r].apiKey})
             /\ run[r].call.key \in {NoKey, run[r].apiKey}

\* a request that read k1 made its three calls and was answered although
\* another request had replaced the stored key by k2 after the first call
C24_Witness ==
    \E r1, r2 \in Runs :
       /\ r1 # r2
       /\ run[r1].kind = "sendMessage" /\ run[r1].apiKey = "k1"
       /\ run[r1].llmCalls = 2 /\ run[r1].execCalls = 1
       /\ run[r1].keysUsed = {"k1"}
       /\ run[r1].out = <<"typing", "clearError", "answer">>
       /\ run[r2].apiKey = "k1" /\ run[r2].newApiKey = "k2"
       /\ store = "k2"

\* C25: whenever a strategy has been selected, the outcome it is applied to
\* has the shape of that strategy: the chat strategy gets a text reply, the
\* models strategy a list of models, and every error-shaped outcome (the
\* validation failure of sendChat included) goes to the generic strategy.
C25_ShapeMatchesStrategy ==
    \A r \in Planned :
       run[r].strategy # "none"
          => /\ run[r].strategy = "chat"
                   => run[r].rawApiResponse.kind \in {"text", "emptyText"}
             /\ run[r].strategy = "models" => run[r].rawApiResponse.kind = "models"
             /\ run[r].rawApiResponse.kind = "error" => run[r].strategy = "generic"

\* request r has posted typing and neither answer nor error, and awaits a call
InFlight(r) ==
    /\ run[r].kind = "sendMessage"
    /\ run[r].pc \in {"planCall", "execCall", "finalCall"}
    /\ run[r].out = <<"typing">>

\* C26: requests are not serialized. While the panel is open a sendMessage
\* is taken up by a free handler invocation whatever the other invocations
\* are doing, and a run waiting for its final model call can receive the
\* reply and post its answer whatever the others are doing, so two pipelines
\* can be in flight together and either can answer first.
C26_RequestsNotSerialized ==
    \A r \in Runs :
       /\ (panel # NoPanel /\ run[r].pc \in {"idle", "done"})
             => ENABLED Receive(r, "sendMessage")
       /\ run[r].pc = "finalCall" => ENABLED FinalReply(r, "ok")

\* two requests have posted typing, neither has posted answer or error, and
\* both wait for the final model call: either answer can come first
C26_Witness ==
    \E r1, r2 \in Runs :
       /\ r1 # r2
       /\ InFlight(r1) /\ InFlight(r2)
       /\ run[r1].pc = "finalCall" /\ run[r2].pc = "finalCall"

\* the enumerated action kinds of a Plan
ActionKinds == Supported \cup {"none"}

\* C27: in every state of a sendMessage run whose planning reply has been
\* read, the plan handed to dispatch is an object whose action is one of
\* createJob, listJobs, cancelJob, deleteJob, getDevices, sendChat,
\* getModels, none, whatever the planning model replied.
C27_PlanActionEnumerated ==
    \A r \in Planned :
       /\ run[r].plan.type = "object"
       /\ "action" \in run[r].plan.has
       /\ run[r].plan.action \in ActionKinds

\* C28: once the webview has handled a clearError message, no error shown
\* before it is still displayed.
C28_ClearErrorRemovesErrors ==
    dom.last = "clearError" => dom.errors = 0

\* the own keys of a value and of everything nested in it
RECURSIVE OwnKeys(_), OwnKeysFrom(_, _)
OwnKeysFrom(kv, i) ==
    IF i > Len(kv) THEN 0 ELSE 1 + OwnKeys(kv[i].v) + OwnKeysFrom(kv, i + 1)

OwnKeys(value) == IF IsObject(value) THEN OwnKeysFrom(value.kv, 1) ELSE 0

EntriesIn(html) == Cardinality({ i \in DOMAIN html : html[i] = "<li><strong>" })

EntityAt(html, i) ==
    \E c \in Markup :
        /\ i + Len(Entity(c)) - 1 <= Len(html)
        /\ SubSeq(html, i, i + Len(Entity(c)) - 1) = Entity(c)

NoRawMarkup(html) ==
    \A i \in DOMAIN html :
        /\ html[i] \notin Markup \ {"&"}
        /\ html[i] = "&" => EntityAt(html, i)

\* C29: formatJsonToHtml renders every payload: one entry per own key of the
\* payload and of every object and array nested in it, and no character
\* & < > " ' of a payload string left as it is in the outline.
C29_OutlineCompleteAndEscaped ==
    fmt.done =>
        /\ ~fmt.threw
        /\ EntriesIn(fmt.html) = OwnKeys(fmt.obj)
        /\ NoRawMarkup(fmt.html)

\* C30: a key entered at the refresh prompt is stored and returned: the retry
\* the handler makes (handleFetchModels) carries it, and a request that reads
\* its key afterwards gets what the store holds; a cancelled prompt leaves
\* the store as it was, returns nothing and ends the request without a call.
C30_RefreshStoresAndReturns ==
    [][ /\ \A r \in Runs :
             /\ (run[r].pc = "newKey" /\ run'[r] # run[r]) =>
                   \/ /\ run'[r].refresh = "supplied"
                      /\ run'[r].newApiKey \in Keys
                      /\ store' = run'[r].newApiKey
                      /\ run[r].kind = "fetchModels" =>
                            /\ run'[r].pc = "retryCall"
                            /\ run'[r].call.fn = "fetchModels"
                            /\ run'[r].call.key = run'[r].newApiKey
                            /\ run'[r].newApiKey \in run'[r].keysUsed
                   \/ /\ run'[r].refresh = "cancelled"
                      /\ run'[r].newApiKey = NoKey
                      /\ store' = store
                      /\ run'[r].pc = "done"
                      /\ run'[r].retries = run[r].retries
                      /\ run'[r].execCalls = run[r].execCalls
                      /\ run'[r].llmCalls = run[r].llmCalls
                      /\ run'[r].out = run[r].out
             /\ (run[r].pc = "getKey" /\ run'[r] # run[r] /\ store # NoKey) =>
                   /\ run'[r].apiKey = store
                   /\ run'[r].keysUsed = {store}
        /\ store' # store =>
             \/ store' = NoKey /\ cleared'
             \/ \E r \in Runs : /\ run[r].pc \in {"keyInput", "newKey"}
                                 /\ run'[r] # run[r]
                                 /\ store' \in {run'[r].apiKey, run'[r].newApiKey} ]_vars

C30_Witness ==
    \E r \in Runs :
        /\ run[r].kind = "fetchModels"
        /\ run[r].pc = "done"
        /\ run[r].apiKey = "k1"
        /\ run[r].newApiKey = "k2"
        /\ run[r].retries = 1
        /\ run[r].keysUsed = {"k1", "k2"}
        /\ run[r].out = <<"clearError", "models">>
        /\ store = "k2"

\* C31: a request that got no key (nothing stored, the input box cancelled)
\* has posted one error message, for the missing key, and nothing else: no
\* typing message, no model call, no executor call.
C31_NoKeyNoPipeline ==
    \A r \in Runs :
        ( /\ run[r].kind \in {"fetchModels", "sendMessage"}
          /\ run[r].pc \notin {"idle", "getKey", "keyInput"}
          /\ run[r].apiKey = NoKey ) =>
            /\ run[r].pc = "done"
            /\ run[r].err = LocalErr("key", "missing")
            /\ run[r].out = <<"error">>
            /\ run[r].llmCalls = 0
            /\ run[r].execInvoked = 0
            /\ run[r].execCalls = 0
            /\ run[r].keysUsed = {}

C31_Witness ==
    \E r \in Runs :
        /\ run[r].kind = "sendMessage"
        /\ run[r].pc = "done"
        /\ run[r].reads = 1
        /\ run[r].apiKey = NoKey
        /\ run[r].out = <<"error">>
        /\ store = NoKey

\* the request of s has ended in a failure that is not an authentication
\* failure
NonAuthFailed(s) ==
    /\ s.pc = "done"
    /\ s.err # NoErr
    /\ ~s.err.marker

\* the locals a handler invocation starts with
FreshRun(kind) == [IdleRun EXCEPT !.kind = kind, !.pc = "getKey", !.panelId = panel]

C33_ResultReachesFormatter ==
    \A r \in Planned :
       (run[r].body # Null /\ run[r].strategy # "none")
          => /\ run[r].rawApiResponse = run[r].body
             /\ run[r].rawApiResponse.kind # "error"

\* the block held JSON that is not an object with an action field
NotAPlan(plan) == plan.type # "object" \/ "action" \notin plan.has

\* C34: a block whose JSON is null, a number, a string, an array or an object
\* without an action is handled as no action: no executor is called, nothing
\* is thrown while the plan is interpreted, and unless the final model call
\* fails the request ends with an answer.
C34_NonObjectPlanIsNoAction ==
    \A r \in Planned :
       NotAPlan(run[r].plan)
          => /\ run[r].execInvoked = 0
             /\ run[r].execCalls = 0
             /\ run[r].err.step \in {"none", "final"}
             /\ (run[r].pc = "done" /\ run[r].err = NoErr)
                   => run[r].out = <<"typing", "clearError", "answer">>

\* C35: a sendMessage request posts at most one answer and at most one
\* error, never both, and nothing after either: the handler has returned
\* once one of them is posted.
C35_OneTerminalMessage ==
    \A r \in SendRuns :
        /\ Count(run[r].out, "answer") + Count(run[r].out, "error") <= 1
        /\ Count(run[r].out, "answer") + Count(run[r].out, "error") = 1
              => /\ run[r].pc = "done"
                 /\ run[r].out[Len(run[r].out)] \in {"answer", "error"}

C35_Witness ==
    \E r \in SendRuns :
        /\ run[r].pc = "done"
        /\ run[r].llmCalls = 2
        /\ run[r].err.step = "final"
        /\ ~run[r].err.marker
        /\ Count(run[r].out, "error") = 1
        /\ Count(run[r].out, "answer") = 0

\* the webview has handled the typing message of request r and not yet its
\* answer or error: what is left of its messages ends a sendMessage pipeline
AwaitsTerminal(r) ==
    inbox[r] \in { <<"clearError", "answer">>, <<"answer">>, <<"clearError", "error">> }

\* C36: while some sendMessage request has had its typing message handled and
\* not yet its answer or error, the webview shows a typing indicator.
C36_IndicatorWhilePending ==
    (\E r \in Runs : AwaitsTerminal(r)) => dom.typing

\* C37: a handler passes a message to postMessage only while the panel it
\* was called with exists.
C37_NoPostAfterDispose ==
    [][ \A r \in Runs :
          (run'[r].out # run[r].out /\ run'[r].out # <<>>)
             => run'[r].panelId \in panels' ]_vars

====
